---- MODULE Spec2Model ----
(***************************************************************************)
(* Model of egui-gizmo's Gizmo::interact (src/src/lib.rs): the per-frame   *)
(* interaction state machine, the picking of the nearest subgizmo and the  *)
(* viewport fallback of GizmoConfig::prepare.                              *)
(***************************************************************************)
EXTENDS Integers, Sequences, FiniteSets, TLC

VARIABLES
    state,      \* GizmoState.active_subgizmo_id persisted in egui memory
    frame,      \* what the last call of Gizmo::interact read, did and returned
    picking,    \* one evaluation of Gizmo::pick_subgizmo on its own
    config      \* one evaluation of GizmoConfig::prepare on its own

vars == <<state, frame, picking, config>>

(***************************************************************************)
(* Bounds of the model.                                                    *)
(***************************************************************************)
\* largest finite pick distance a subgizmo reports
MaxDist == 2
\* most subgizmos that report a hit in one frame of Spec
MaxHits == 2
\* largest finite viewport coordinate
MaxCoord == 2

(***************************************************************************)
(* Option<T>: None is the empty tuple, Some(x) the one-element tuple.      *)
(***************************************************************************)
None == <<>>
Some(x) == <<x>>
IsSome(o) == o # None
Unwrap(o) == o[1]

(***************************************************************************)
(* The subgizmo sets.  A subgizmo is known by its position in              *)
(* Gizmo.subgizmos; its identity is self.id.with(name), modelled by name   *)
(* (one gizmo identity).                                                   *)
(***************************************************************************)
GizmoMode == {"Rotate", "Translate", "Scale"}

new_arcball == <<"arc">>

new_rotation == <<"rx", "ry", "rz", "rs">>

new_translation == <<"txs", "tx", "ty", "tz", "tyz", "txz", "txy">>

new_scale == <<"txs", "sx", "sy", "sz", "syz", "sxz", "sxy">>

\* match self.config.mode { ... add_subgizmos(...) }
Subgizmos(mode) ==
    CASE mode = "Rotate" -> new_rotation \o new_arcball
      [] mode = "Translate" -> new_translation
      [] mode = "Scale" -> new_scale

\* the identities of a frame's subgizmos
IdsOf(subgizmos) == {subgizmos[i] : i \in 1..Len(subgizmos)}

(***************************************************************************)
(* f32 pick distances: a finite value or NaN.                              *)
(***************************************************************************)
NaN == [nan |-> TRUE, v |-> 0]
Finite(n) == [nan |-> FALSE, v |-> n]
F32 == {Finite(n) : n \in 1..MaxDist} \cup {NaN}

\* f32::partial_cmp
PartialCmp(a, b) ==
    IF a.nan \/ b.nan THEN None
    ELSE IF a.v < b.v THEN Some("Less")
    ELSE IF a.v > b.v THEN Some("Greater")
    ELSE Some("Equal")

\* |first, second| first.partial_cmp(second).unwrap_or(Ordering::Equal)
Compare(first, second) ==
    LET o == PartialCmp(first, second) IN
    IF IsSome(o) THEN Unwrap(o) ELSE "Equal"

\* a mutation of MinByStep: on Equal the later element replaces the earlier one
MinByStepLast(v1, v2) ==
    IF Compare(v1[1], v2[1]) = "Less" THEN v1 ELSE v2

\* core::cmp::min_by as called by Iterator::min_by: the earlier element v1 is
\* kept on Less and on Equal, the later element v2 is taken on Greater
MinByStep(v1, v2) ==
    IF Compare(v1[1], v2[1]) = "Greater" THEN v2 ELSE v1

\* Iterator::min_by is reduce(|x, y| min_by(x, y, compare)); acc holds the
\* element kept so far, rest the elements not yet visited
RECURSIVE Reduce(_, _)
Reduce(acc, rest) ==
    IF rest = <<>> THEN acc
    ELSE Reduce(MinByStep(acc, Head(rest)), Tail(rest))

\* .filter_map(|subgizmo| subgizmo.pick(ui, ray).map(|t| (t, subgizmo))):
\* hits[i] is what subgizmo i's pick returns for the ray
RECURSIVE FilterMap(_, _)
FilterMap(hits, i) ==
    IF i > Len(hits) THEN <<>>
    ELSE IF IsSome(hits[i]) THEN <<(<<Unwrap(hits[i]), i>>)>> \o FilterMap(hits, i + 1)
    ELSE FilterMap(hits, i + 1)

\* Gizmo::pick_subgizmo: the position of the picked subgizmo, or None
PickSubgizmo(hits) ==
    LET candidates == FilterMap(hits, 1) IN
    IF candidates = <<>> THEN None
    ELSE Some(Reduce(Head(candidates), Tail(candidates))[2])

(***************************************************************************)
(* Inputs of one frame.                                                    *)
(***************************************************************************)
\* ui.input(|i| i.pointer.hover_pos()): absent, or a position on the screen
HoverPos == {None, Some("pos")}

\* what SubGizmo::update returns to interact: a GizmoResult or None
UpdateResults == {None, Some("GizmoResult")}

\* no subgizmo among n reports a hit
NoHits(n) == [i \in 1..n |-> None]

\* the results of subgizmo.pick(ui, ray) over the n subgizmos of a frame:
\* at most MaxHits of them report a distance
HitVectors(n) ==
    UNION {{[i \in 1..n |-> IF i \in S THEN Some(d[i]) ELSE None] : d \in [S -> F32]} :
           S \in {T \in SUBSET (1..n) : Cardinality(T) <= MaxHits}}

\* the pick results a frame of each mode can see
FrameHits == [mode \in GizmoMode |-> HitVectors(Len(Subgizmos(mode)))]

(***************************************************************************)
(* The steps of Gizmo::interact.                                           *)
(***************************************************************************)
\* a mutation of PointerRay: a ray is built also when the pointer hovers nothing
PointerRayAlways(hover_pos) == Some("ray")

\* Gizmo::pointer_ray: `?` returns None when there is no hover position
PointerRay(hover_pos) ==
    IF IsSome(hover_pos) THEN Some("ray") ELSE None

\* a mutation of ShouldPick: picking also runs while a subgizmo is active
ShouldPickAlways(active_subgizmo_id) == TRUE

\* if state.active_subgizmo_id.is_none()
ShouldPick(active_subgizmo_id) == active_subgizmo_id = None

\* a mutation of StartDrag: a hovered subgizmo becomes active without a drag start
StartDragOnHover(active_subgizmo_id, picked, subgizmos, drag_started, dragging) ==
    IF IsSome(picked) THEN Some(subgizmos[Unwrap(picked)]) ELSE active_subgizmo_id

\* a mutation of StartDrag: the identity stored is that of the first subgizmo
StartDragFirst(active_subgizmo_id, picked, subgizmos, drag_started, dragging) ==
    IF IsSome(picked) /\ drag_started /\ dragging
    THEN Some(subgizmos[1])
    ELSE active_subgizmo_id

\* if let Some(subgizmo) = pick { if interaction.drag_started() && dragging
\*   { state.active_subgizmo_id = Some(subgizmo.id()) } }
StartDrag(active_subgizmo_id, picked, subgizmos, drag_started, dragging) ==
    IF IsSome(picked) /\ drag_started /\ dragging
    THEN Some(subgizmos[Unwrap(picked)])
    ELSE active_subgizmo_id

\* state.active_subgizmo_id.and_then(|id| subgizmos.iter_mut().find(|s| s.id() == id)):
\* the position of the first subgizmo with that identity, or None
FindActive(subgizmos, active_subgizmo_id) ==
    IF active_subgizmo_id = None THEN None
    ELSE LET found == {i \in 1..Len(subgizmos) : subgizmos[i] = Unwrap(active_subgizmo_id)} IN
         IF found = {} THEN None
         ELSE Some(CHOOSE i \in found : \A j \in found : i <= j)

\* a mutation of Updating: the active subgizmo is updated whether or not the
\* primary button is down
UpdatingAlways(active_subgizmo, primary_down) == IsSome(active_subgizmo)

\* if let Some(subgizmo) = active_subgizmo.as_mut() { if primary_down() { ... } }
Updating(active_subgizmo, primary_down) ==
    IsSome(active_subgizmo) /\ primary_down

\* the else branch: state.active_subgizmo_id = None
Release(active_subgizmo_id, active_subgizmo, primary_down) ==
    IF IsSome(active_subgizmo) /\ ~primary_down THEN None ELSE active_subgizmo_id

\* Gizmo::draw_subgizmos: the positions of the subgizmos that are drawn;
\* is_active is the set of subgizmos whose is_active() is true
DrawSubgizmos(subgizmos, active_subgizmo_id, is_active) ==
    {i \in 1..Len(subgizmos) : active_subgizmo_id = None \/ i \in is_active}

\* the frame record before the first call of interact
NoFrame ==
    [valid |-> FALSE, mode |-> "Rotate", hover_pos |-> None, primary_down |-> FALSE,
     loaded |-> None, pointer_ray |-> None, pick_called |-> FALSE, picked |-> None,
     drag_start |-> FALSE, focused |-> {}, active |-> {}, updated |-> {},
     drawn |-> {}, result |-> None]

\* Gizmo::interact, one frame.  The subgizmos are built anew with focused and
\* active false; state is loaded, changed and saved; the subgizmos are drawn.
\* self.config.prepare(ui) writes only the config of this call (SpecPrepare).
\* set_focused and set_active are the only writers of the flags, which a new
\* subgizmo holds unset.  (\E x \in {e} binds the local x to the value of e.)
Interact(mode, hover_pos, primary_down, hits, drag_started, dragging, update_result) ==
    LET subgizmos == Subgizmos(mode)
        loaded == state
        pointer_ray == PointerRay(hover_pos)
        has_ray == IsSome(pointer_ray)
        pick_called == has_ray /\ ShouldPick(loaded)
    IN
    \E picked \in {IF pick_called THEN PickSubgizmo(hits) ELSE None} :
    \E started \in {IF pick_called
                   THEN StartDrag(loaded, picked, subgizmos, drag_started, dragging)
                   ELSE loaded} :
    \E active_subgizmo \in {IF has_ray THEN FindActive(subgizmos, started) ELSE None} :
    LET
        updating == Updating(active_subgizmo, primary_down)
        saved == Release(started, active_subgizmo, primary_down)
        is_active == IF updating THEN {Unwrap(active_subgizmo)} ELSE {}
        is_focused == (IF IsSome(picked) THEN {Unwrap(picked)} ELSE {}) \cup is_active
        result == IF updating THEN update_result ELSE None
    IN  /\ state' = saved
        /\ frame' = [valid |-> TRUE, mode |-> mode, hover_pos |-> hover_pos,
                     primary_down |-> primary_down, loaded |-> loaded,
                     pointer_ray |-> pointer_ray, pick_called |-> pick_called,
                     picked |-> picked,
                     drag_start |-> IsSome(picked) /\ drag_started /\ dragging,
                     focused |-> is_focused, active |-> is_active,
                     updated |-> is_active,
                     drawn |-> DrawSubgizmos(subgizmos, saved, is_active),
                     result |-> result]
        /\ UNCHANGED <<picking, config>>

Init ==
    /\ state = None
    /\ frame = NoFrame
    /\ picking = None
    /\ config = None

\* a frame with any inputs; pick results and the drag response are varied only
\* in frames that can read them
Next ==
    \E mode \in GizmoMode, hover_pos \in HoverPos, primary_down \in BOOLEAN :
      \E hits \in (IF IsSome(PointerRay(hover_pos)) /\ ShouldPick(state)
                   THEN FrameHits[mode]
                   ELSE {NoHits(Len(Subgizmos(mode)))}) :
        \E drag_started, dragging \in (IF \E i \in DOMAIN hits : IsSome(hits[i])
                                       THEN BOOLEAN ELSE {FALSE}) :
          \E update_result \in UpdateResults :
            Interact(mode, hover_pos, primary_down, hits, drag_started, dragging, update_result)

Spec == Init /\ [][Next]_vars

(***************************************************************************)
(* Gizmo::pick_subgizmo on its own: every assignment of pick results to    *)
(* the subgizmos of a mode.                                                *)
(***************************************************************************)
\* the results of subgizmo.pick over n subgizmos: None, a distance or NaN each
AllHitVectors(n) == [1..n -> {None} \cup {Some(t) : t \in F32}]

InitPick ==
    /\ state = None
    /\ frame = NoFrame
    /\ config = None
    /\ \E mode \in GizmoMode :
         \E hits \in AllHitVectors(Len(Subgizmos(mode))) :
           picking = [mode |-> mode, hits |-> hits, done |-> FALSE, picked |-> None]

\* self.pick_subgizmo(ui, pointer_ray)
Pick ==
    /\ ~picking.done
    /\ picking' = [picking EXCEPT !.done = TRUE, !.picked = PickSubgizmo(picking.hits)]
    /\ UNCHANGED <<state, frame, config>>

NextPick == Pick

SpecPick == InitPick /\ [][NextPick]_vars

(***************************************************************************)
(* GizmoConfig::prepare on its own: the viewport it leaves in the config.  *)
(* An f32 coordinate is an integer of 0..MaxCoord or an infinity.          *)
(***************************************************************************)
\* f32::INFINITY: above every finite coordinate
INFINITY == MaxCoord + 1

\* egui Rect::NOTHING, the viewport of GizmoConfig::default:
\* min = (INFINITY, INFINITY), max = (-INFINITY, -INFINITY)
RectNOTHING == [min |-> <<INFINITY, INFINITY>>, max |-> <<-INFINITY, -INFINITY>>]

\* egui Rect::is_negative: self.max.x < self.min.x || self.max.y < self.min.y
IsNegative(r) == r.max[1] < r.min[1] \/ r.max[2] < r.min[2]

\* the viewports a caller can configure: Gizmo::viewport(rect), or none
Viewports ==
    {[min |-> <<a, b>>, max |-> <<c, d>>] : a, b, c, d \in 0..MaxCoord} \cup {RectNOTHING}

\* ui.clip_rect(): a rectangle of positive size
ClipRects == {[min |-> <<0, 0>>, max |-> <<c, d>>] : c, d \in 1..MaxCoord}

\* if self.viewport.is_negative() { self.viewport = ui.clip_rect(); }
PrepareViewport(viewport, clip_rect) ==
    IF IsNegative(viewport) THEN clip_rect ELSE viewport

InitPrepare ==
    /\ state = None
    /\ frame = NoFrame
    /\ picking = None
    /\ \E viewport \in Viewports, clip_rect \in ClipRects :
         config = [given |-> viewport, clip_rect |-> clip_rect,
                   viewport |-> viewport, prepared |-> FALSE]

\* self.config.prepare(ui)
Prepare ==
    /\ ~config.prepared
    /\ config' = [config EXCEPT !.viewport = PrepareViewport(config.viewport, config.clip_rect),
                                !.prepared = TRUE]
    /\ UNCHANGED <<state, frame, picking>>

NextPrepare == Prepare

SpecPrepare == InitPrepare /\ [][NextPrepare]_vars

(***************************************************************************)
(* Properties of the frames of Gizmo::interact (Spec).                     *)
(***************************************************************************)
\* the subgizmos of the last frame
FrameSubgizmos == Subgizmos(frame.mode)

\* the saved state is Dragging(h) for the subgizmo at position i of the frame
SavedIs(i) == state = Some(FrameSubgizmos[i])

\* C1: a frame that loads Dragging(h) while the primary button is not held
\* saves Idle, whether the pointer hovers or not.
C1_DragRelease ==
    (frame.valid /\ IsSome(frame.loaded) /\ ~frame.primary_down) => state = None

\* C2: a frame changes Idle to Dragging(h) only if it has a pointer ray, h is
\* the subgizmo pick_subgizmo returned and a primary-button drag started in the
\* frame; a frame without a drag start leaves Idle as it is.
C2_DragStart ==
    (frame.valid /\ frame.loaded = None) =>
        /\ IsSome(state) =>
              /\ IsSome(frame.pointer_ray)
              /\ frame.pick_called
              /\ IsSome(frame.picked)
              /\ SavedIs(Unwrap(frame.picked))
              /\ frame.drag_start
        /\ ~frame.drag_start => state = None

C2_Witness ==
    /\ frame.valid
    /\ frame.loaded = None
    /\ frame.drag_start
    /\ IsSome(frame.picked)
    /\ SavedIs(Unwrap(frame.picked))

\* C3: a frame that loads Dragging(h) saves Dragging(h) or Idle and does not
\* evaluate pick_subgizmo.
C3_NoSuperseding ==
    (frame.valid /\ IsSome(frame.loaded)) =>
        /\ state \in {frame.loaded, None}
        /\ ~frame.pick_called
        /\ frame.picked = None

C3_Witness ==
    /\ frame.valid
    /\ IsSome(frame.loaded)
    /\ IsSome(frame.pointer_ray)
    /\ state = frame.loaded
    /\ frame.updated # {}

\* C4: a frame without a hover position builds no ray, picks and updates no
\* subgizmo, returns no result and saves the state it loaded.
C4_NoHover ==
    (frame.valid /\ frame.hover_pos = None) =>
        /\ frame.pointer_ray = None
        /\ ~frame.pick_called
        /\ frame.updated = {}
        /\ frame.result = None
        /\ state = frame.loaded

C4_Witness ==
    /\ frame.valid
    /\ frame.hover_pos = None
    /\ frame.primary_down
    /\ IsSome(frame.loaded)
    /\ state = frame.loaded

\* C5: a frame that returns a result had a pointer ray and the primary button
\* down and saves Dragging(h) for a subgizmo h of the frame; a frame that saves
\* Idle returns no result.
C5_ResultOnlyWhileDragging ==
    frame.valid =>
        /\ IsSome(frame.result) =>
              /\ IsSome(frame.pointer_ray)
              /\ frame.primary_down
              /\ IsSome(state)
              /\ Unwrap(state) \in IdsOf(FrameSubgizmos)
        /\ state = None => frame.result = None

C5_Witness ==
    /\ frame.valid
    /\ IsSome(frame.result)
    /\ IsSome(state)

\* C7: after every frame the saved state is Idle or the identity of a
\* subgizmo of that frame's set.
C7_StateClearedWhenNoHandleActive ==
    frame.valid => (state = None \/ Unwrap(state) \in IdsOf(FrameSubgizmos))

\* C8: in a frame that saves Dragging(h), h is the subgizmo that is updated and
\* the subgizmo that is drawn, and no other is; in a frame that saves Idle all
\* subgizmos are drawn.
C8_ExclusiveDragTarget ==
    frame.valid =>
        /\ IsSome(state) =>
              LET target == {i \in 1..Len(FrameSubgizmos) : SavedIs(i)} IN
              /\ frame.updated = target
              /\ frame.drawn = target
              /\ Cardinality(target) = 1
        /\ state = None => frame.drawn = 1..Len(FrameSubgizmos)

\* C10: at most one subgizmo is focused and at most one is active; an active
\* subgizmo is focused and its identity is the saved active identity; in the
\* frame where a drag starts the picked, focused subgizmo is the active one.
C10_SingleFocusSingleActive ==
    frame.valid =>
        /\ Cardinality(frame.focused) <= 1
        /\ Cardinality(frame.active) <= 1
        /\ frame.active \subseteq frame.focused
        /\ \A i \in frame.active : SavedIs(i)
        /\ (frame.loaded = None /\ IsSome(state)) =>
              /\ IsSome(frame.picked)
              /\ frame.focused = {Unwrap(frame.picked)}
              /\ frame.active = {Unwrap(frame.picked)}

C10_Witness ==
    /\ frame.valid
    /\ frame.loaded = None
    /\ IsSome(state)
    /\ IsSome(frame.picked)
    /\ Unwrap(frame.picked) > 1
    /\ frame.active = {Unwrap(frame.picked)}
    /\ frame.focused = frame.active

\* C11: the identities of the subgizmos of a frame are distinct from each
\* other and from the identities of the subgizmos of the other modes.
C11_HandleIdentitiesUnique ==
    frame.valid =>
        \A mode \in GizmoMode :
          \A i \in 1..Len(FrameSubgizmos), j \in 1..Len(Subgizmos(mode)) :
            FrameSubgizmos[i] = Subgizmos(mode)[j] => (mode = frame.mode /\ i = j)

\* C12: every frame draws at least one subgizmo of its set.
C12_GizmoNeverDisappears ==
    frame.valid => frame.drawn # {}

(***************************************************************************)
(* Properties of Gizmo::pick_subgizmo (SpecPick).                          *)
(***************************************************************************)
\* the subgizmos that report a hit in the evaluation at hand
Hitting == {i \in DOMAIN picking.hits : IsSome(picking.hits[i])}

\* the distance subgizmo i reports
Distance(i) == Unwrap(picking.hits[i])

\* the earliest-defined subgizmo that reports a hit
FirstHit == CHOOSE i \in Hitting : \A j \in Hitting : i <= j

\* the subgizmos that report a distance that is not NaN
FiniteHits == {i \in Hitting : ~Distance(i).nan}

\* C6 as stated: the pick is absent exactly when nothing is hit; otherwise no
\* subgizmo reports a smaller distance than the picked one, and no
\* earlier-defined subgizmo reports a distance equal to or incomparable with it.
C6_PickMinimumFirstDefinedWins ==
    picking.done =>
        /\ picking.picked = None <=> Hitting = {}
        /\ IsSome(picking.picked) =>
              LET r == Unwrap(picking.picked) IN
              /\ r \in Hitting
              /\ \A j \in Hitting : PartialCmp(Distance(j), Distance(r)) # Some("Less")
              /\ \A j \in Hitting :
                    j < r => PartialCmp(Distance(j), Distance(r)) \notin {Some("Equal"), None}

\* C6 amended: the pick is absent exactly when nothing is hit; when the
\* earliest-defined hit subgizmo reports NaN it is picked; otherwise the pick is
\* the earliest-defined subgizmo whose distance is the minimum of the distances
\* that are not NaN.
C6_PickScan ==
    picking.done =>
        /\ picking.picked = None <=> Hitting = {}
        /\ IsSome(picking.picked) =>
              LET r == Unwrap(picking.picked) IN
              /\ r \in Hitting
              /\ Distance(FirstHit).nan => r = FirstHit
              /\ ~Distance(FirstHit).nan =>
                    /\ r \in FiniteHits
                    /\ \A j \in FiniteHits : Distance(r).v <= Distance(j).v
                    /\ \A j \in FiniteHits : j < r => Distance(r).v < Distance(j).v

C6_Witness ==
    /\ picking.done
    /\ IsSome(picking.picked)
    /\ \E i, j \in Hitting :
         /\ i < j
         /\ j < Unwrap(picking.picked)
         /\ ~Distance(i).nan
         /\ Distance(j).nan
    /\ \E k \in Hitting :
         /\ k > Unwrap(picking.picked)
         /\ Distance(k) = Distance(Unwrap(picking.picked))

(***************************************************************************)
(* Properties of GizmoConfig::prepare (SpecPrepare).                       *)
(***************************************************************************)
\* the width and height of a rectangle
Width(r) == r.max[1] - r.min[1]
Height(r) == r.max[2] - r.min[2]

\* C9: prepare replaces a viewport that is unset, inverted or zero-sized by
\* the clip rectangle and leaves a viewport of positive width and height as
\* it is.
C9_ViewportFallback ==
    config.prepared =>
        LET given == config.given
            unset == given = RectNOTHING
            inverted == given.max[1] < given.min[1] \/ given.max[2] < given.min[2]
            zero_sized == Width(given) = 0 \/ Height(given) = 0
            positive == Width(given) > 0 /\ Height(given) > 0
        IN  /\ (unset \/ inverted \/ zero_sized) => config.viewport = config.clip_rect
            /\ positive => config.viewport = given

====
